---- MODULE Spec2Model ----
(***************************************************************************)
(* Model of httpie/output/writer.py: the selection of the output stream    *)
(* class, the lazy producers of output chunks, the write loops and the     *)
(* two entry points with their broken-pipe handling.                       *)
(*                                                                         *)
(* bytes objects are sequences of integers 0..255; a str is a record       *)
(* [str |-> <<code points>>], so that text and bytes never compare equal   *)
(* and encode()/decode() are real conversions.                             *)
(***************************************************************************)
EXTENDS Integers, Sequences, FiniteSets, TLC

(* ------------------------------ bounds -------------------------------- *)

\* The longest message body, in lines.
MaxBodyLines == 2

(* --------------------------- bytes and text --------------------------- *)

Str(cps) == [str |-> cps]

\* str.encode(): UTF-8 of one code point (code points below 2048 suffice).
EncodeChar(cp) ==
    IF cp < 128 THEN <<cp>>
    ELSE <<192 + (cp \div 64), 128 + (cp % 64)>>

RECURSIVE EncodeCps(_)
EncodeCps(cps) ==
    IF cps = <<>> THEN <<>>
    ELSE EncodeChar(Head(cps)) \o EncodeCps(Tail(cps))

Encode(s) == EncodeCps(s.str)

\* bytes.decode('utf-8'): ok is FALSE where Python raises UnicodeDecodeError.
RECURSIVE DecodeBytes(_)
DecodeBytes(b) ==
    IF b = <<>> THEN [ok |-> TRUE, cps |-> <<>>]
    ELSE IF b[1] < 128
    THEN LET r == DecodeBytes(Tail(b))
         IN  [ok |-> r.ok, cps |-> <<b[1]>> \o r.cps]
    ELSE IF b[1] >= 194 /\ b[1] < 224 /\ Len(b) >= 2 /\ b[2] >= 128 /\ b[2] < 192
    THEN LET r == DecodeBytes(Tail(Tail(b)))
         IN  [ok |-> r.ok, cps |-> <<(b[1] - 192) * 64 + (b[2] - 128)>> \o r.cps]
    ELSE [ok |-> FALSE, cps |-> <<>>]

\* `sub in b` for bytes objects.
Contains(sub, b) ==
    \E i \in 1..(Len(b) - Len(sub) + 1) :
        SubSeq(b, i, i + Len(sub) - 1) = sub

RECURSIVE Concat(_)
Concat(chunks) ==
    IF chunks = <<>> THEN <<>> ELSE Head(chunks) \o Concat(Tail(chunks))

MESSAGE_SEPARATOR == Str(<<10, 10>>)
MESSAGE_SEPARATOR_BYTES == Encode(MESSAGE_SEPARATOR)

\* color = b'\x1b['
color == <<27, 91>>

(* ------------------------ environment and flags ----------------------- *)

\* env: stdout_isatty, is_windows; stdout_has_buffer says whether
\* env.stdout has a .buffer attribute (a text stream over a byte stream).
Envs ==
    [stdout_isatty : BOOLEAN, is_windows : BOOLEAN, stdout_has_buffer : BOOLEAN]

PrettifyGroups == {"colors", "format"}

\* args as the writer reads it.  style, json and format_options only reach
\* the Formatting object of the pretty streams.
ArgsOf(styles, jsons, options) ==
    [stream : BOOLEAN,
     prettify : SUBSET PrettifyGroups,
     output_format_form : {"JSON", "HTTP"},
     debug : BOOLEAN,
     traceback : BOOLEAN,
     style : styles,
     json : jsons,
     format_options : options]

Styles == {"auto", "solarized"}
FormatOptions == {"default", "sorted"}

\* Every flag combination (used where the selection alone is examined).
AllArgs == ArgsOf(Styles, BOOLEAN, FormatOptions)

\* One command line's flags for the write loops: the formatting details are
\* left at their defaults there.
Args == ArgsOf({"auto"}, {FALSE}, {"default"})

(* ----------------------- selection of the stream ---------------------- *)

Strategies ==
    {"RawStream", "BaseStreamJson", "PrettyStream", "BufferedPrettyStream",
     "EncodedStream"}

CHUNK_SIZE_BY_LINE == "RawStream.CHUNK_SIZE_BY_LINE"
CHUNK_SIZE == "RawStream.CHUNK_SIZE"

Conversion == "Conversion()"

\* env=env: the keyword arguments carry the caller's Environment object
\* itself, not a copy of its fields.
EnvRef(e) == "env"

Formatting(e, groups, color_scheme, explicit_json, format_options) ==
    [env |-> EnvRef(e), groups |-> groups, color_scheme |-> color_scheme,
     explicit_json |-> explicit_json, format_options |-> format_options]

\* Mutant: the final else is missing, so a terminal without prettifying
\* gets no stream class at all.
get_stream_type_and_kwargs_NoElse(e, a) ==
    IF ~e.stdout_isatty /\ a.prettify = {}
    THEN [stream_class |-> "RawStream",
          stream_kwargs |->
              [chunk_size |-> IF a.stream THEN CHUNK_SIZE_BY_LINE
                              ELSE CHUNK_SIZE]]
    ELSE IF a.output_format_form = "JSON"
    THEN [stream_class |-> "BaseStreamJson",
          stream_kwargs |-> [on_body_chunk_downloaded |-> "None"]]
    ELSE IF a.prettify # {}
    THEN [stream_class |-> IF a.stream THEN "PrettyStream"
                           ELSE "BufferedPrettyStream",
          stream_kwargs |->
              [env |-> EnvRef(e),
               conversion |-> Conversion,
               formatting |-> Formatting(e, a.prettify, a.style, a.json,
                                         a.format_options)]]
    ELSE [stream_class |-> "None", stream_kwargs |-> [env |-> EnvRef(e)]]

\* Mutant: the first test reads `or` for `and`.
get_stream_type_and_kwargs_RawOr(e, a) ==
    IF ~e.stdout_isatty \/ a.prettify = {}
    THEN [stream_class |-> "RawStream",
          stream_kwargs |->
              [chunk_size |-> IF a.stream THEN CHUNK_SIZE_BY_LINE
                              ELSE CHUNK_SIZE]]
    ELSE IF a.output_format_form = "JSON"
    THEN [stream_class |-> "BaseStreamJson",
          stream_kwargs |-> [on_body_chunk_downloaded |-> "None"]]
    ELSE [stream_class |-> IF a.stream THEN "PrettyStream"
                           ELSE "BufferedPrettyStream",
          stream_kwargs |->
              [env |-> EnvRef(e),
               conversion |-> Conversion,
               formatting |-> Formatting(e, a.prettify, a.style, a.json,
                                         a.format_options)]]

\* Mutant: the prettify test comes before the JSON test.
get_stream_type_and_kwargs_PrettyFirst(e, a) ==
    IF ~e.stdout_isatty /\ a.prettify = {}
    THEN [stream_class |-> "RawStream",
          stream_kwargs |->
              [chunk_size |-> IF a.stream THEN CHUNK_SIZE_BY_LINE
                              ELSE CHUNK_SIZE]]
    ELSE IF a.prettify # {}
    THEN [stream_class |-> IF a.stream THEN "PrettyStream"
                           ELSE "BufferedPrettyStream",
          stream_kwargs |->
              [env |-> EnvRef(e),
               conversion |-> Conversion,
               formatting |-> Formatting(e, a.prettify, a.style, a.json,
                                         a.format_options)]]
    ELSE IF a.output_format_form = "JSON"
    THEN [stream_class |-> "BaseStreamJson",
          stream_kwargs |-> [on_body_chunk_downloaded |-> "None"]]
    ELSE [stream_class |-> "EncodedStream",
          stream_kwargs |-> [env |-> EnvRef(e)]]

\* Mutant: the two pretty stream classes are the wrong way round.
get_stream_type_and_kwargs_PrettySwapped(e, a) ==
    IF ~e.stdout_isatty /\ a.prettify = {}
    THEN [stream_class |-> "RawStream",
          stream_kwargs |->
              [chunk_size |-> IF a.stream THEN CHUNK_SIZE_BY_LINE
                              ELSE CHUNK_SIZE]]
    ELSE IF a.output_format_form = "JSON"
    THEN [stream_class |-> "BaseStreamJson",
          stream_kwargs |-> [on_body_chunk_downloaded |-> "None"]]
    ELSE IF a.prettify # {}
    THEN [stream_class |-> IF a.stream THEN "BufferedPrettyStream"
                           ELSE "PrettyStream",
          stream_kwargs |->
              [env |-> EnvRef(e),
               conversion |-> Conversion,
               formatting |-> Formatting(e, a.prettify, a.style, a.json,
                                         a.format_options)]]
    ELSE [stream_class |-> "EncodedStream",
          stream_kwargs |-> [env |-> EnvRef(e)]]

get_stream_type_and_kwargs(e, a) ==
    IF ~e.stdout_isatty /\ a.prettify = {}
    THEN [stream_class |-> "RawStream",
          stream_kwargs |->
              [chunk_size |-> IF a.stream THEN CHUNK_SIZE_BY_LINE
                              ELSE CHUNK_SIZE]]
    ELSE IF a.output_format_form = "JSON"
    THEN [stream_class |-> "BaseStreamJson",
          stream_kwargs |-> [on_body_chunk_downloaded |-> "None"]]
    ELSE IF a.prettify # {}
    THEN [stream_class |-> IF a.stream THEN "PrettyStream"
                           ELSE "BufferedPrettyStream",
          stream_kwargs |->
              [env |-> EnvRef(e),
               conversion |-> Conversion,
               formatting |-> Formatting(e, a.prettify, a.style, a.json,
                                         a.format_options)]]
    ELSE [stream_class |-> "EncodedStream",
          stream_kwargs |-> [env |-> EnvRef(e)]]

\* No stream chosen yet.
NoSelection == [stream_class |-> "None", stream_kwargs |-> [none |-> TRUE]]

(* ------------------------ messages and streams ------------------------ *)

\* One line of a body: "h\u00e9\n" in UTF-8.
BodyLine == <<104, 195, 169, 10>>

RECURSIVE BodyOfLines(_)
BodyOfLines(n) == IF n = 0 THEN <<>> ELSE BodyLine \o BodyOfLines(n - 1)

Bodies == {BodyOfLines(n) : n \in 0..MaxBodyLines}

HeaderBytes == <<72, 10>>

\* requests_message: a requests.PreparedRequest or a requests.Response.  Only
\* the chunks of a request body being uploaded carry is_body_upload_chunk.
Messages ==
    {[kind |-> "PreparedRequest", headers |-> HeaderBytes, body |-> b,
      is_body_upload_chunk |-> u] : b \in Bodies, u \in {"absent", "True"}}
    \cup
    {[kind |-> "Response", headers |-> HeaderBytes, body |-> b,
      is_body_upload_chunk |-> "absent"] : b \in Bodies}

\* The (request, response) pairs handed to write_message_json.
MessagePairs ==
    {<<q, r>> : q \in {m \in Messages : m.kind = "PreparedRequest"
                                        /\ m.is_body_upload_chunk = "absent"},
                r \in {m \in Messages : m.kind = "Response"
                                        /\ Len(m.body) <= Len(BodyLine)}}

\* getattr(requests_message, 'is_body_upload_chunk', False)
GetIsBodyUploadChunk(m) == m.is_body_upload_chunk = "True"

\* The body cut after every line feed (iter_lines).
RECURSIVE Lines(_, _)
Lines(b, acc) ==
    IF b = <<>> THEN (IF acc = <<>> THEN <<>> ELSE <<acc>>)
    ELSE IF Head(b) = 10 THEN <<Append(acc, 10)>> \o Lines(Tail(b), <<>>)
    ELSE Lines(Tail(b), Append(acc, Head(b)))

\* What the formatters do to a piece of text, as far as the writer can tell:
\* with the 'colors' group the bytes come back wrapped in escape sequences.
Format(groups, b) ==
    IF "colors" \in groups THEN color \o <<109>> \o b ELSE b

\* Re-encoding for the terminal: decode, then encode.
Reencode(b) ==
    LET d == DecodeBytes(b) IN IF d.ok THEN Encode(Str(d.cps)) ELSE <<63>>

HeaderChunk(sel, m) ==
    IF sel.stream_class \in {"PrettyStream", "BufferedPrettyStream"}
    THEN Format(sel.stream_kwargs.formatting.groups, m.headers)
    ELSE m.headers

BodyChunks(sel, m) ==
    LET cls == sel.stream_class
        kw == sel.stream_kwargs
        lines == Lines(m.body, <<>>)
        FormatOne(b) == Format(kw.formatting.groups, b)
    IN  CASE cls = "RawStream" ->
                IF kw.chunk_size = CHUNK_SIZE_BY_LINE THEN lines
                ELSE IF m.body = <<>> THEN <<>> ELSE <<m.body>>
          [] cls = "EncodedStream" ->
                [i \in 1..Len(lines) |-> Reencode(lines[i])]
          [] cls = "PrettyStream" ->
                [i \in 1..Len(lines) |-> FormatOne(lines[i])]
          [] cls = "BufferedPrettyStream" ->
                IF m.body = <<>> THEN <<>> ELSE <<FormatOne(m.body)>>
          [] OTHER -> IF m.body = <<>> THEN <<>> ELSE <<m.body>>

\* iter(stream_class(msg=..., with_headers=..., with_body=..., **kwargs)):
\* the headers first, as one chunk, then the chunks of the body.
StreamChunks(sel, m, with_headers, with_body) ==
    (IF with_headers THEN <<HeaderChunk(sel, m)>> ELSE <<>>)
    \o (IF with_body THEN BodyChunks(sel, m) ELSE <<>>)

\* iter(stream_class(msgReq=..., msgRes=..., with_headers_req=..., ...)):
\* the request in full, then the response in full.
StreamChunksJson(sel, pair, f) ==
    StreamChunks(sel, pair[1], f.with_headers_req, f.with_body_req)
    \o StreamChunks(sel, pair[2], f.with_headers_res, f.with_body_res)

(* ------------------------------- state -------------------------------- *)

VARIABLES
    env,        \* the Environment of the process
    args,       \* the parsed command line
    pc,         \* "idle": no write in progress; "for": the writer is about
                \* to ask the stream for a chunk; "write": it holds a chunk;
                \* "flush": it has written the chunk
    call,       \* the entry point running (or last run) and its arguments,
                \* with the write_stream_kwargs it built
    gen,        \* the generator object of the producer
    inflight,   \* the chunk the loop variable holds: <<>> or <<chunk>>
    produced,   \* the chunks the producer has yielded in this call
    out,        \* the writes this call made to env.stdout, in order
    flushes,    \* the number of outfile.flush() calls of this call
    errout,     \* what this call wrote to env.stderr
    fault,      \* the exception raised inside the writer, if any
    faultAt,    \* where it was raised: "write", "flush", or "none"
    exc,        \* the exception the call raised to its caller, if any
    outcome,    \* "none" (running or never called), "returned", "raised"
    selects,    \* calls of get_stream_type_and_kwargs in this call
    pulls       \* next() calls on the producer in this call

vars ==
    <<env, args, pc, call, gen, inflight, produced, out, flushes, errout,
      fault, faultAt, exc, outcome, selects, pulls>>

NoFlags ==
    [with_headers |-> FALSE, with_body |-> FALSE,
     with_headers_req |-> FALSE, with_body_req |-> FALSE,
     with_headers_res |-> FALSE, with_body_res |-> FALSE]

NoCall ==
    [entry |-> "none", requests_message |-> <<>>, flags |-> NoFlags,
     writer |-> "none", flush |-> FALSE]

NoGen == [state |-> "none", rest |-> <<>>, sel |-> NoSelection]

NoExc == [type |-> "None", errno |-> "None"]

\* errno of the IOError a write or a flush of the sink may raise.
Errnos == {"EPIPE", "ENOSPC"}

IOError(errno) == [type |-> "IOError", errno |-> errno]

(* ------------------------------ producers ----------------------------- *)

\* Mutant: the test of is_body_upload_chunk is missing.
NeedsSeparator_NoUploadTest(e, c) ==
    /\ e.stdout_isatty
    /\ c.flags.with_body

\* Mutant: the test of env.stdout_isatty is missing.
NeedsSeparator_NoTtyTest(e, c) ==
    /\ c.flags.with_body
    /\ ~GetIsBodyUploadChunk(c.requests_message)

\* The condition of the trailing separator.
NeedsSeparator(e, c) ==
    /\ e.stdout_isatty
    /\ c.flags.with_body
    /\ ~GetIsBodyUploadChunk(c.requests_message)

\* The generator ran past its `yield from`: either it yields the separator
\* or it finishes.
AfterStream(g, separator) ==
    IF separator
    THEN [gen |-> [g EXCEPT !.state = "separator", !.rest = <<>>],
          yielded |-> <<MESSAGE_SEPARATOR_BYTES>>]
    ELSE [gen |-> [g EXCEPT !.state = "finished", !.rest = <<>>],
          yielded |-> <<>>]

\* One chunk of the stream, or what follows the stream when it is exhausted.
FromStream(g, chunks, separator) ==
    IF chunks # <<>>
    THEN [gen |-> [g EXCEPT !.state = "stream", !.rest = Tail(chunks)],
          yielded |-> <<Head(chunks)>>]
    ELSE AfterStream(g, separator)

\* next() on the generator of build_output_stream_for_message: the generator
\* runs to its next yield.  yielded is <<>> on StopIteration.
build_output_stream_for_message(g, e, a, c) ==
    CASE g.state = "created" ->
            LET sel == get_stream_type_and_kwargs(e, a)
            IN  FromStream([g EXCEPT !.sel = sel],
                           StreamChunks(sel, c.requests_message,
                                        c.flags.with_headers,
                                        c.flags.with_body),
                           NeedsSeparator(e, c))
      [] g.state = "stream" -> FromStream(g, g.rest, NeedsSeparator(e, c))
      [] OTHER -> [gen |-> [g EXCEPT !.state = "finished"], yielded |-> <<>>]

\* Mutant: the separator rule of build_output_stream_for_message carried
\* over to the pair producer.
build_output_stream_for_message_json_Separator(g, e, a, c) ==
    LET separator == e.stdout_isatty /\ c.flags.with_body_res
    IN  CASE g.state = "created" ->
                LET sel == get_stream_type_and_kwargs(e, a)
                IN  FromStream([g EXCEPT !.sel = sel],
                               StreamChunksJson(sel, c.requests_message,
                                                c.flags),
                               separator)
          [] g.state = "stream" -> FromStream(g, g.rest, separator)
          [] OTHER -> [gen |-> [g EXCEPT !.state = "finished"],
                       yielded |-> <<>>]

\* next() on the generator of build_output_stream_for_message_json.
build_output_stream_for_message_json(g, e, a, c) ==
    CASE g.state = "created" ->
            LET sel == get_stream_type_and_kwargs(e, a)
            IN  FromStream([g EXCEPT !.sel = sel],
                           StreamChunksJson(sel, c.requests_message, c.flags),
                           FALSE)
      [] g.state = "stream" -> FromStream(g, g.rest, FALSE)
      [] OTHER -> [gen |-> [g EXCEPT !.state = "finished"], yielded |-> <<>>]

GenNext(g, e, a, c) ==
    IF c.entry = "write_message"
    THEN build_output_stream_for_message(g, e, a, c)
    ELSE build_output_stream_for_message_json(g, e, a, c)

(* ----------------------------- entry points --------------------------- *)

\* Mutant: `and` for `or`.
FlushPolicy_And(e, a) == e.stdout_isatty /\ a.stream

\* 'flush': env.stdout_isatty or args.stream
FlushPolicy(e, a) == e.stdout_isatty \/ a.stream

\* Mutant: `or` for `and`.
WriterOf_Or(e, a) ==
    IF e.is_windows \/ "colors" \in a.prettify
    THEN "write_stream_with_colors_win_py3"
    ELSE "write_stream"

\* The writer write_message hands the stream to.
WriterOf(e, a) ==
    IF e.is_windows /\ "colors" \in a.prettify
    THEN "write_stream_with_colors_win_py3"
    ELSE "write_stream"

\* A behaviour follows one call of an entry point, from a process that has
\* written nothing yet.
FreshCall ==
    /\ outcome = "none"
    /\ inflight' = <<>>
    /\ produced' = <<>>
    /\ out' = <<>>
    /\ flushes' = 0
    /\ errout' = <<>>
    /\ fault' = NoExc
    /\ faultAt' = "none"
    /\ exc' = NoExc
    /\ selects' = 0
    /\ pulls' = 0

\* Mutant: the parentheses are missing, `not with_body and with_headers`.
NothingRequested_NoParens(with_headers, with_body) ==
    (~with_body) /\ with_headers

\* if not (with_body or with_headers): return
NothingRequested(with_headers, with_body) == ~(with_body \/ with_headers)

\* if not (with_body_req or with_headers_req or with_body_res
\*         or with_headers_res): return
NothingRequestedJson(f) ==
    ~(f.with_body_req \/ f.with_headers_req
      \/ f.with_body_res \/ f.with_headers_res)

write_message(m, with_headers, with_body) ==
    /\ pc = "idle"
    /\ FreshCall
    /\ UNCHANGED <<env, args>>
    /\ IF NothingRequested(with_headers, with_body)
       THEN /\ call' = [NoCall EXCEPT !.entry = "write_message",
                                      !.requests_message = m,
                                      !.flags.with_headers = with_headers,
                                      !.flags.with_body = with_body]
            /\ gen' = NoGen
            /\ pc' = "idle"
            /\ outcome' = "returned"
       ELSE /\ call' = [entry |-> "write_message",
                        requests_message |-> m,
                        flags |-> [NoFlags EXCEPT
                                       !.with_headers = with_headers,
                                       !.with_body = with_body],
                        writer |-> WriterOf(env, args),
                        flush |-> FlushPolicy(env, args)]
            /\ gen' = [NoGen EXCEPT !.state = "created"]
            /\ pc' = "for"
            /\ outcome' = "none"

write_message_json(pair, f) ==
    /\ pc = "idle"
    /\ FreshCall
    /\ UNCHANGED <<env, args>>
    /\ IF NothingRequestedJson(f)
       THEN /\ call' = [NoCall EXCEPT !.entry = "write_message_json",
                                      !.requests_message = pair,
                                      !.flags = f]
            /\ gen' = NoGen
            /\ pc' = "idle"
            /\ outcome' = "returned"
       ELSE /\ call' = [entry |-> "write_message_json",
                        requests_message |-> pair,
                        flags |-> f,
                        writer |-> "write_stream_json",
                        flush |-> FlushPolicy(env, args)]
            /\ gen' = [NoGen EXCEPT !.state = "created"]
            /\ pc' = "for"
            /\ outcome' = "none"

\* The flags of a write_message_json call.
JsonFlags ==
    {f \in [with_headers : {FALSE}, with_body : {FALSE},
            with_headers_req : BOOLEAN, with_body_req : BOOLEAN,
            with_headers_res : BOOLEAN, with_body_res : BOOLEAN] : TRUE}

\* Mutant: show_traceback = args.debug and args.traceback
ExceptIOError_DebugAndTraceback(e, a) ==
    IF ~(a.debug /\ a.traceback) /\ e.errno = "EPIPE"
    THEN /\ errout' = Append(errout, Str(<<10>>))
         /\ exc' = NoExc
         /\ outcome' = "returned"
    ELSE /\ errout' = errout
         /\ exc' = e
         /\ outcome' = "raised"

\* Mutant: `not show_traceback or e.errno == errno.EPIPE`
ExceptIOError_Or(e, a) ==
    IF ~(a.debug \/ a.traceback) \/ e.errno = "EPIPE"
    THEN /\ errout' = Append(errout, Str(<<10>>))
         /\ exc' = NoExc
         /\ outcome' = "returned"
    ELSE /\ errout' = errout
         /\ exc' = e
         /\ outcome' = "raised"

\* except IOError as e: of both entry points.  The broken pipe is swallowed
\* unless a traceback was asked for; anything else is raised again.
ExceptIOError(e, a) ==
    IF ~(a.debug \/ a.traceback) /\ e.errno = "EPIPE"
    THEN /\ errout' = Append(errout, Str(<<10>>))
         /\ exc' = NoExc
         /\ outcome' = "returned"
    ELSE /\ errout' = errout
         /\ exc' = e
         /\ outcome' = "raised"

\* Mutant: the try statement sits inside the loop, which goes on after it.
Raise_InsideLoop(e) ==
    /\ pc' = "for"
    /\ fault' = e
    /\ faultAt' = pc
    /\ inflight' = <<>>
    /\ IF e.type = "IOError"
       THEN ExceptIOError(e, args)
       ELSE /\ errout' = errout
            /\ exc' = e
            /\ outcome' = "raised"

\* An exception leaves the writer; the entry point's try statement sees it.
Raise(e) ==
    /\ pc' = "idle"
    /\ fault' = e
    /\ faultAt' = pc
    /\ inflight' = <<>>
    /\ IF e.type = "IOError"
       THEN ExceptIOError(e, args)
       ELSE /\ errout' = errout
            /\ exc' = e
            /\ outcome' = "raised"

(* -------------------------------- writers ----------------------------- *)

\* Mutant: the next chunk is fetched before the written one is flushed.
ForChunk_BeforeFlush ==
    /\ pc \in {"for", "flush"}
    /\ LET r == GenNext(gen, env, args, call)
       IN  /\ gen' = r.gen
           /\ pulls' = pulls + 1
           /\ selects' = selects + (IF gen.state = "created" THEN 1 ELSE 0)
           /\ IF r.yielded # <<>>
              THEN /\ inflight' = r.yielded
                   /\ produced' = Append(produced, r.yielded[1])
                   /\ pc' = "write"
                   /\ outcome' = outcome
              ELSE /\ inflight' = <<>>
                   /\ produced' = produced
                   /\ pc' = "idle"
                   /\ outcome' = "returned"
    /\ UNCHANGED <<env, args, call, out, flushes, errout, fault, faultAt,
                   exc>>

\* for chunk in stream: (all three writers)
ForChunk ==
    /\ pc = "for"
    /\ LET r == GenNext(gen, env, args, call)
       IN  /\ gen' = r.gen
           /\ pulls' = pulls + 1
           /\ selects' = selects + (IF gen.state = "created" THEN 1 ELSE 0)
           /\ IF r.yielded # <<>>
              THEN /\ inflight' = r.yielded
                   /\ produced' = Append(produced, r.yielded[1])
                   /\ pc' = "write"
                   /\ outcome' = outcome
              ELSE /\ inflight' = <<>>
                   /\ produced' = produced
                   /\ pc' = "idle"
                   /\ outcome' = "returned"
    /\ UNCHANGED <<env, args, call, out, flushes, errout, fault, faultAt,
                   exc>>

\* Mutant: the test is inverted, `if not flush:`.
AfterWrite_Inverted == IF call.flush THEN "for" ELSE "flush"

\* if flush:
AfterWrite == IF call.flush THEN "flush" ELSE "for"

\* buf.write(chunk) of write_stream and write_stream_json: buf is
\* outfile.buffer, or outfile itself when it has no buffer.
write_stream ==
    /\ pc = "write"
    /\ call.writer \in {"write_stream", "write_stream_json"}
    /\ out' = Append(out, [to |-> IF env.stdout_has_buffer THEN "buffer"
                                  ELSE "outfile",
                           mode |-> "bytes",
                           data |-> inflight[1]])
    /\ pc' = AfterWrite
    /\ UNCHANGED <<env, args, call, gen, inflight, produced, flushes, errout,
                   fault, faultAt, exc, outcome, selects, pulls>>

\* Mutant: the `else:` is missing, so a chunk written as text is written to
\* the buffer as well.
write_stream_with_colors_win_py3_NoElse ==
    /\ pc = "write"
    /\ call.writer = "write_stream_with_colors_win_py3"
    /\ LET chunk == inflight[1]
           text == DecodeBytes(chunk)
           asText == IF Contains(color, chunk)
                     THEN <<[to |-> "outfile", mode |-> "text",
                             data |-> Str(text.cps)]>>
                     ELSE <<>>
       IN  IF Contains(color, chunk) /\ ~text.ok
           THEN /\ out' = out
                /\ Raise([type |-> "UnicodeDecodeError", errno |-> "None"])
           ELSE IF env.stdout_has_buffer
           THEN /\ out' = out \o asText
                           \o <<[to |-> "buffer", mode |-> "bytes",
                                 data |-> chunk]>>
                /\ pc' = AfterWrite
                /\ UNCHANGED <<inflight, errout, fault, faultAt, exc,
                                    outcome>>
           ELSE /\ out' = out \o asText
                /\ Raise([type |-> "AttributeError", errno |-> "None"])
    /\ UNCHANGED <<env, args, call, gen, produced, flushes, selects, pulls>>

\* Mutant: the test is inverted, `if color not in chunk:`.
write_stream_with_colors_win_py3_Inverted ==
    /\ pc = "write"
    /\ call.writer = "write_stream_with_colors_win_py3"
    /\ LET chunk == inflight[1]
           text == DecodeBytes(chunk)
       IN  IF ~Contains(color, chunk)
           THEN IF text.ok
                THEN /\ out' = Append(out, [to |-> "outfile",
                                            mode |-> "text",
                                            data |-> Str(text.cps)])
                     /\ pc' = AfterWrite
                     /\ UNCHANGED <<inflight, errout, fault, faultAt, exc,
                                    outcome>>
                ELSE /\ out' = out
                     /\ Raise([type |-> "UnicodeDecodeError",
                               errno |-> "None"])
           ELSE IF env.stdout_has_buffer
                THEN /\ out' = Append(out, [to |-> "buffer", mode |-> "bytes",
                                            data |-> chunk])
                     /\ pc' = AfterWrite
                     /\ UNCHANGED <<inflight, errout, fault, faultAt, exc,
                                    outcome>>
                ELSE /\ out' = out
                     /\ Raise([type |-> "AttributeError", errno |-> "None"])
    /\ UNCHANGED <<env, args, call, gen, produced, flushes, selects, pulls>>

\* The write of write_stream_with_colors_win_py3: text for a chunk that holds
\* the escape introducer, bytes for any other.
write_stream_with_colors_win_py3 ==
    /\ pc = "write"
    /\ call.writer = "write_stream_with_colors_win_py3"
    /\ LET chunk == inflight[1]
           text == DecodeBytes(chunk)
       IN  IF Contains(color, chunk)
           THEN IF text.ok
                THEN /\ out' = Append(out, [to |-> "outfile",
                                            mode |-> "text",
                                            data |-> Str(text.cps)])
                     /\ pc' = AfterWrite
                     /\ UNCHANGED <<inflight, errout, fault, faultAt, exc,
                                    outcome>>
                ELSE /\ out' = out
                     /\ Raise([type |-> "UnicodeDecodeError",
                               errno |-> "None"])
           ELSE IF env.stdout_has_buffer
                THEN /\ out' = Append(out, [to |-> "buffer", mode |-> "bytes",
                                            data |-> chunk])
                     /\ pc' = AfterWrite
                     /\ UNCHANGED <<inflight, errout, fault, faultAt, exc,
                                    outcome>>
                ELSE /\ out' = out
                     /\ Raise([type |-> "AttributeError", errno |-> "None"])
    /\ UNCHANGED <<env, args, call, gen, produced, flushes, selects, pulls>>

\* Whether the writer gets as far as handing the chunk to the sink.
ReachesSink ==
    IF call.writer \in {"write_stream", "write_stream_json"} THEN TRUE
    ELSE IF Contains(color, inflight[1]) THEN DecodeBytes(inflight[1]).ok
    ELSE env.stdout_has_buffer

\* The write of the chunk fails: the sink raises an IOError.
WriteFails(errno) ==
    /\ pc = "write"
    /\ ReachesSink
    /\ Raise(IOError(errno))
    /\ UNCHANGED <<env, args, call, gen, produced, out, flushes, selects,
                   pulls>>

\* if flush: outfile.flush()
Flush ==
    /\ pc = "flush"
    /\ flushes' = flushes + 1
    /\ pc' = "for"
    /\ UNCHANGED <<env, args, call, gen, inflight, produced, out, errout,
                   fault, faultAt, exc, outcome, selects, pulls>>

FlushFails(errno) ==
    /\ pc = "flush"
    /\ flushes' = flushes + 1
    /\ Raise(IOError(errno))
    /\ UNCHANGED <<env, args, call, gen, produced, out, selects, pulls>>

(* ---------------------------- specification --------------------------- *)

Init ==
    /\ env \in Envs
    /\ args \in Args
    /\ pc = "idle"
    /\ call = NoCall
    /\ gen = NoGen
    /\ inflight = <<>>
    /\ produced = <<>>
    /\ out = <<>>
    /\ flushes = 0
    /\ errout = <<>>
    /\ fault = NoExc
    /\ faultAt = "none"
    /\ exc = NoExc
    /\ outcome = "none"
    /\ selects = 0
    /\ pulls = 0

Next ==
    \/ \E m \in Messages, wh \in BOOLEAN, wb \in BOOLEAN :
           write_message(m, wh, wb)
    \/ \E p \in MessagePairs, f \in JsonFlags : write_message_json(p, f)
    \/ ForChunk
    \/ write_stream
    \/ write_stream_with_colors_win_py3
    \/ \E errno \in Errnos : WriteFails(errno)
    \/ Flush
    \/ \E errno \in Errnos : FlushFails(errno)

Spec == Init /\ [][Next]_vars

(* The selection on its own: get_stream_type_and_kwargs applied to every    *)
(* environment and every flag combination, one call after another.          *)

Idle ==
    /\ pc = "idle"
    /\ call = NoCall
    /\ inflight = <<>>
    /\ produced = <<>>
    /\ out = <<>>
    /\ flushes = 0
    /\ errout = <<>>
    /\ fault = NoExc
    /\ faultAt = "none"
    /\ exc = NoExc
    /\ outcome = "none"
    /\ pulls = 0

InitSelect ==
    /\ env \in Envs
    /\ args \in AllArgs
    /\ gen = NoGen
    /\ selects = 0
    /\ Idle

\* stream_class, stream_kwargs = get_stream_type_and_kwargs(env=e, args=a)
Select(e, a) ==
    /\ env' = e
    /\ args' = a
    /\ gen' = [NoGen EXCEPT !.sel = get_stream_type_and_kwargs(e, a)]
    /\ selects' = 1
    /\ UNCHANGED <<pc, call, inflight, produced, out, flushes, errout, fault,
                   faultAt, exc, outcome, pulls>>

\* The next selection differs from the last in the environment or in the
\* flags.
NextSelect ==
    \/ \E e \in Envs : Select(e, args)
    \/ \E a \in AllArgs : Select(env, a)

SpecSelect == InitSelect /\ [][NextSelect]_vars

(* ====================== properties of the selection =================== *)

\* What the claims call the inputs of the selection.
SelectorInputs(e, a) ==
    <<e.stdout_isatty, a.stream, a.prettify # {},
      a.output_format_form = "JSON">>

\* Everything the stream_kwargs are built from besides those.
ConfigInputs(e, a) == <<a.prettify, a.style, a.json, a.format_options>>

Selected == selects > 0
DualRequested == args.output_format_form = "JSON"
RawRule == ~env.stdout_isatty /\ args.prettify = {}

C2_RawRule ==
    Selected =>
        /\ (gen.sel.stream_class = "RawStream") <=> RawRule
        /\ RawRule =>
              gen.sel.stream_kwargs =
                  [chunk_size |-> IF args.stream
                                  THEN "RawStream.CHUNK_SIZE_BY_LINE"
                                  ELSE "RawStream.CHUNK_SIZE"]

\* RawStream with the by-line chunk size although dual mode was requested.
C2_Witness ==
    /\ Selected
    /\ DualRequested
    /\ args.stream
    /\ gen.sel.stream_class = "RawStream"
    /\ gen.sel.stream_kwargs.chunk_size = CHUNK_SIZE_BY_LINE

\* C3: when the raw rule does not match and dual mode is requested, the
\* selection is BaseStreamJson with on_body_chunk_downloaded None, whatever
\* the stream flag and the prettify groups.
C3_DualRule ==
    (Selected /\ ~RawRule /\ DualRequested) =>
        gen.sel = [stream_class |-> "BaseStreamJson",
                   stream_kwargs |-> [on_body_chunk_downloaded |-> "None"]]

\* Dual mode wins over prettifying with the stream flag set.
C3_Witness ==
    /\ Selected
    /\ DualRequested
    /\ args.prettify = {"colors", "format"}
    /\ args.stream
    /\ ~env.stdout_isatty
    /\ gen.sel.stream_class = "BaseStreamJson"

\* C4: without dual mode, a non-empty prettify set selects PrettyStream with
\* the stream flag and BufferedPrettyStream without it, terminal or not; an
\* empty prettify set on a terminal selects EncodedStream.
C4_PrettyAndEncodedRules ==
    (Selected /\ ~DualRequested) =>
        /\ args.prettify # {} =>
              gen.sel.stream_class =
                  IF args.stream THEN "PrettyStream"
                  ELSE "BufferedPrettyStream"
        /\ (args.prettify = {} /\ env.stdout_isatty) =>
              gen.sel.stream_class = "EncodedStream"

\* BufferedPrettyStream for a redirected sink.
C4_Witness ==
    /\ Selected
    /\ ~DualRequested
    /\ ~env.stdout_isatty
    /\ ~args.stream
    /\ args.prettify = {"format"}
    /\ gen.sel.stream_class = "BufferedPrettyStream"

(* ===================== properties of the entry points ================= *)

AnyFlag(f) ==
    \/ f.with_headers \/ f.with_body
    \/ f.with_headers_req \/ f.with_body_req
    \/ f.with_headers_res \/ f.with_body_res

Called == call.entry # "none"

\* C5: a call that asks for neither headers nor body has returned, and has
\* selected no stream, pulled and produced no chunk, written and flushed
\* nothing to stdout and written nothing to stderr.
C5_NothingRequestedNoEffect ==
    (Called /\ ~AnyFlag(call.flags)) =>
        /\ pc = "idle"
        /\ outcome = "returned"
        /\ exc = NoExc
        /\ fault = NoExc
        /\ gen.state = "none"
        /\ selects = 0
        /\ pulls = 0
        /\ produced = <<>>
        /\ inflight = <<>>
        /\ out = <<>>
        /\ flushes = 0
        /\ errout = <<>>

\* write_message_json was called with its four flags false, on a terminal.
C5_Witness ==
    /\ call.entry = "write_message_json"
    /\ ~AnyFlag(call.flags)
    /\ env.stdout_isatty
    /\ outcome = "returned"

ShowTraceback == args.debug \/ args.traceback

\* C6: after a write or a flush raised IOError with errno EPIPE, the call
\* has returned with exactly one newline on stderr when neither debug nor
\* traceback is set, and has raised that error with nothing on stderr when
\* one of them is set.
C6_BrokenPipe ==
    (fault.type = "IOError" /\ fault.errno = "EPIPE") =>
        IF ~ShowTraceback
        THEN outcome = "returned" /\ exc = NoExc
             /\ errout = <<[str |-> <<10>>]>>
        ELSE outcome = "raised" /\ exc = fault /\ errout = <<>>

\* A flush of write_message_json hit a broken pipe and it was swallowed.
C6_Witness ==
    /\ call.entry = "write_message_json"
    /\ fault = [type |-> "IOError", errno |-> "EPIPE"]
    /\ flushes = 2
    /\ Len(out) = 2
    /\ outcome = "returned"
    /\ Len(errout) = 1

\* C7: after a write or a flush raised IOError with another errno, the call
\* has raised that error, debug and traceback set or not, with nothing on
\* stderr.
C7_OtherIOError ==
    (fault.type = "IOError" /\ fault.errno # "EPIPE") =>
        outcome = "raised" /\ exc = fault /\ errout = <<>>

\* A write failed for another reason with neither debug nor traceback set.
C7_Witness ==
    /\ call.entry = "write_message"
    /\ fault = [type |-> "IOError", errno |-> "ENOSPC"]
    /\ ~ShowTraceback
    /\ Len(out) = 1
    /\ outcome = "raised"

(* ====================== properties of the producers =================== *)

ProducerFinished == gen.state = "finished"

\* The chunks of the stream object the producer of this call iterates.
ChunksOfStream ==
    IF call.entry = "write_message"
    THEN StreamChunks(gen.sel, call.requests_message,
                      call.flags.with_headers, call.flags.with_body)
    ELSE StreamChunksJson(gen.sel, call.requests_message, call.flags)

\* C8: when build_output_stream_for_message is exhausted, it has yielded the
\* chunks of the stream followed by the single chunk b'\n\n' if stdout is a
\* terminal, the body was requested and is_body_upload_chunk is not set, and
\* the chunks of the stream alone otherwise.
C8_SeparatorRule ==
    (call.entry = "write_message" /\ ProducerFinished) =>
        produced =
            IF /\ env.stdout_isatty
               /\ call.flags.with_body
               /\ call.requests_message.is_body_upload_chunk # "True"
            THEN Append(ChunksOfStream, <<10, 10>>)
            ELSE ChunksOfStream

\* Headers, two body chunks and then the separator.
C8_Witness ==
    /\ call.entry = "write_message"
    /\ ProducerFinished
    /\ Len(produced) = 4
    /\ produced[4] = <<10, 10>>
    /\ produced[3] # <<10, 10>>

\* The headers, then the body, as requested.
Serialization(m, with_headers, with_body) ==
    (IF with_headers THEN m.headers ELSE <<>>)
    \o (IF with_body THEN m.body ELSE <<>>)

SerializationOfCall ==
    IF call.entry = "write_message"
    THEN Serialization(call.requests_message, call.flags.with_headers,
                       call.flags.with_body)
    ELSE Serialization(call.requests_message[1], call.flags.with_headers_req,
                       call.flags.with_body_req)
         \o Serialization(call.requests_message[2],
                          call.flags.with_headers_res,
                          call.flags.with_body_res)

\* C9: when RawStream was selected and the producer is exhausted, the chunks
\* it yielded, concatenated, are the chunks of the RawStream concatenated,
\* which is the headers-then-body serialization of the message.
C9_RawRoundTrip ==
    (ProducerFinished /\ gen.sel.stream_class = "RawStream") =>
        /\ Concat(produced) = Concat(ChunksOfStream)
        /\ Concat(produced) = SerializationOfCall

\* A raw write of headers and a body of two lines, cut by line.
C9_Witness ==
    /\ call.entry = "write_message"
    /\ ProducerFinished
    /\ gen.sel.stream_class = "RawStream"
    /\ gen.sel.stream_kwargs.chunk_size = CHUNK_SIZE_BY_LINE
    /\ call.flags.with_body
    /\ call.requests_message.is_body_upload_chunk = "absent"
    /\ Len(produced) = 3

(* ======================= properties of the writers ==================== *)

\* The bytes of one write to the sink: a text write re-encoded with the
\* encoding of the sink.
BytesOf(w) == IF w.mode = "text" THEN Encode(w.data) ELSE w.data

RECURSIVE BytesWritten(_)
BytesWritten(ws) ==
    IF ws = <<>> THEN <<>> ELSE <<BytesOf(Head(ws))>> \o BytesWritten(Tail(ws))

CompletedWithoutFault ==
    /\ call.writer # "none"
    /\ outcome = "returned"
    /\ fault = NoExc

\* C10: when a write completes without a fault, the chunks written to the
\* sink are the chunks the producer yielded, in the same order and each
\* once, for each of the three writers.
C10_WrittenIsProduced ==
    CompletedWithoutFault => BytesWritten(out) = produced

\* The color writer wrote three chunks as text and the separator as bytes.
C10_Witness ==
    /\ CompletedWithoutFault
    /\ call.writer = "write_stream_with_colors_win_py3"
    /\ Len(out) = 4
    /\ out[1].mode = "text"
    /\ out[4].mode = "bytes"

\* A writer is running or has run.
Writing == call.writer # "none"

\* C11: with flush true every write of a chunk is followed by one flush call
\* before the next chunk is pulled, so the flush calls are as many as the
\* chunks written (one fewer while the flush of the last write is pending);
\* with flush false no flush call is made.  For all three writers.
C11_FlushCadence ==
    Writing =>
        IF call.flush
        THEN /\ pc = "flush" => flushes = Len(out) - 1
             /\ pc # "flush" => flushes = Len(out)
        ELSE flushes = 0 /\ pc # "flush"

\* The color writer wrote and flushed four chunks.
C11_Witness ==
    /\ CompletedWithoutFault
    /\ call.writer = "write_stream_with_colors_win_py3"
    /\ call.flush
    /\ Len(out) = 4
    /\ flushes = 4

\* C12: in the color writer every chunk makes one write, chosen by the chunk
\* alone: a chunk holding ESC [ is written to outfile as text, and that text
\* encoded with the encoding of the sink is the chunk again; a chunk without
\* ESC [ is written to outfile.buffer as the same bytes, undecoded.
C12_ColorSplit ==
    call.writer = "write_stream_with_colors_win_py3" =>
        /\ Len(out) <= Len(produced)
        /\ \A i \in 1..Len(out) :
              IF Contains(<<27, 91>>, produced[i])
              THEN /\ out[i].to = "outfile"
                   /\ out[i].mode = "text"
                   /\ Encode(out[i].data) = produced[i]
              ELSE out[i] = [to |-> "buffer", mode |-> "bytes",
                             data |-> produced[i]]

\* A colored line with a two-byte character went out as text and the
\* separator as bytes.
C12_Witness ==
    /\ call.writer = "write_stream_with_colors_win_py3"
    /\ Len(out) = 3
    /\ out[2].mode = "text"
    /\ \E j \in 1..Len(out[2].data.str) : out[2].data.str[j] = 233
    /\ out[3] = [to |-> "buffer", mode |-> "bytes", data |-> <<10, 10>>]

(* ==================== properties of the orchestration ================= *)

\* C13: both entry points hand the writer flush = stdout_isatty or
\* args.stream: a write that completes has flushed once per chunk when
\* stdout is a terminal or the stream flag is set, and no flush call is made
\* when stdout is redirected and the stream flag is not set.
C13_FlushPolicy ==
    Writing =>
        /\ call.flush <=> (env.stdout_isatty \/ args.stream)
        /\ (~env.stdout_isatty /\ ~args.stream) => flushes = 0
        /\ (CompletedWithoutFault /\ (env.stdout_isatty \/ args.stream)) =>
              flushes = Len(produced)

\* write_message_json flushed chunk by chunk into a redirected sink because
\* the stream flag was set.
C13_Witness ==
    /\ call.entry = "write_message_json"
    /\ ~env.stdout_isatty
    /\ args.stream
    /\ CompletedWithoutFault
    /\ flushes = 3

PlainWriters == {"write_stream", "write_stream_json"}

\* C14: the color writer runs exactly for a write_message call on Windows
\* with 'colors' among the prettify groups; every other call, and every
\* write_message_json call, runs a plain byte writer, and no chunk is
\* written as decoded text off Windows or without 'colors'.
C14_ColorWriterChoice ==
    Writing =>
        /\ call.writer = "write_stream_with_colors_win_py3" <=>
              /\ call.entry = "write_message"
              /\ env.is_windows
              /\ "colors" \in args.prettify
        /\ call.writer # "write_stream_with_colors_win_py3" =>
              call.writer \in PlainWriters
        /\ call.entry = "write_message_json" =>
              call.writer = "write_stream_json"
        /\ \A i \in 1..Len(out) :
              out[i].mode = "text" =>
                  env.is_windows /\ "colors" \in args.prettify

\* On Windows, prettifying without colors, the plain writer wrote bytes.
C14_Witness ==
    /\ call.entry = "write_message"
    /\ env.is_windows
    /\ args.prettify = {"format"}
    /\ call.writer = "write_stream"
    /\ Len(out) = 2
    /\ out[2].mode = "bytes"

\* C15: each producer is handed a stream class it can build with the
\* keyword arguments it passes: build_output_stream_for_message (msg=...) is
\* never handed BaseStreamJson, and build_output_stream_for_message_json
\* (msgReq=..., msgRes=...) is always handed BaseStreamJson.
C15_ProducerGetsItsStream ==
    (Called /\ Selected) =>
        /\ call.entry = "write_message" =>
              gen.sel.stream_class # "BaseStreamJson"
        /\ call.entry = "write_message_json" =>
              gen.sel.stream_class = "BaseStreamJson"

\* C16: the writer pulls one chunk at a time: at most one chunk is pulled
\* and not yet written; a chunk is pulled only when every chunk pulled
\* before it has been written, and flushed when flush is true; and
\* get_stream_type_and_kwargs is called once, by the first pull, not when
\* the stream is created.
C16_PullsOneAtATime ==
    /\ [](Writing =>
            /\ Len(produced) - Len(out) \in {0, 1}
            /\ pulls = 0 => (selects = 0 /\ gen.state = "created")
            /\ pulls > 0 => selects = 1)
    /\ [][pulls' > pulls =>
            /\ Len(out) = Len(produced)
            /\ call.flush => flushes = Len(out)
            /\ selects' > selects <=> pulls = 0]_vars

\* The third chunk is pulled while two are written and flushed and the
\* stream has more to give.
C16_Witness ==
    /\ pc = "write"
    /\ call.flush
    /\ Len(produced) = 3
    /\ Len(out) = 2
    /\ flushes = 2
    /\ gen.state = "stream"
    /\ gen.rest # <<>>

Faulted == fault # NoExc

\* C17 as stated: after a write or a flush faulted on chunk k, the call is
\* over and the chunks written are exactly the ones produced before k.
C17_WrittenBeforeFaultingChunk ==
    Faulted =>
        /\ pc = "idle"
        /\ BytesWritten(out) = SubSeq(produced, 1, Len(produced) - 1)

\* C17 amended: after a fault on chunk k the call is over and nothing more
\* happens: k is the last chunk pulled, the producer is left suspended, the
\* chunks written are the ones before k when the write of k faulted and the
\* ones up to and including k when its flush faulted, and the separator has
\* not been yielded unless it is chunk k itself.
C17_StopsAtFault ==
    /\ [](Faulted =>
            /\ pc = "idle"
            /\ outcome \in {"returned", "raised"}
            /\ pulls = Len(produced)
            /\ gen.state \in {"stream", "separator"}
            /\ gen.state = "stream" =>
                  produced = SubSeq(ChunksOfStream, 1, Len(produced))
            /\ gen.state = "separator" =>
                  produced = Append(ChunksOfStream, <<10, 10>>)
            /\ faultAt \in {"write", "flush"}
            /\ BytesWritten(out) =
                  SubSeq(produced, 1,
                         IF faultAt = "flush" THEN Len(produced)
                         ELSE Len(produced) - 1))
    /\ [][~Faulted]_vars

\* The flush after the second chunk hit a broken pipe, which was swallowed,
\* with more chunks to come.
C17_Witness ==
    /\ fault = [type |-> "IOError", errno |-> "EPIPE"]
    /\ faultAt = "flush"
    /\ outcome = "returned"
    /\ Len(produced) = 2
    /\ Len(out) = 2
    /\ gen.rest # <<>>

\* C18: build_output_stream_for_message_json never yields the separator:
\* whatever the terminal state and the four flags, what it has yielded is a
\* prefix of the chunks of the selected stream, and once it is exhausted it
\* has yielded exactly those chunks, with nothing after them.
C18_PairProducerNoSeparator ==
    (call.entry = "write_message_json" /\ Selected) =>
        /\ gen.state # "separator"
        /\ produced = SubSeq(StreamChunksJson(gen.sel, call.requests_message,
                                              call.flags),
                             1, Len(produced))
        /\ ProducerFinished =>
              produced = StreamChunksJson(gen.sel, call.requests_message,
                                          call.flags)

\* The pair producer is exhausted on a terminal, the response body having
\* been requested and written.
C18_Witness ==
    /\ call.entry = "write_message_json"
    /\ ProducerFinished
    /\ env.stdout_isatty
    /\ call.flags.with_body_res
    /\ Len(produced) >= 2
    /\ outcome = "returned"
    /\ fault = NoExc

====
